---- MODULE Spec2Model ----
(***************************************************************************)
(* Peano arithmetic rebuilt from the difference operator (delta) and the   *)
(* connection step (succ), as in Peano_from_deltasigma.py.                 *)
(*                                                                         *)
(* Values are modelled structurally: Z() is [tag |-> "Z"], S(p) is         *)
(* [tag |-> "S", pred |-> p]; any Python object that is neither a Z nor an *)
(* S instance is the shape Other.  Left/Right are tagged wrappers.         *)
(***************************************************************************)
EXTENDS Integers, Sequences, FiniteSets, TLC

\* ------------------------------------------------------------ bounds ----
MaxN == 4       \* longest S-chain drawn as an input
MaxK == 3       \* integers handed to from_int range over -MaxK..MaxK

\* ------------------------------------------------------- data types ----
Left(v) == [tag |-> "Left", value |-> v]

Right(v) == [tag |-> "Right", value |-> v]

Z == [tag |-> "Z"]

S(p) == [tag |-> "S", pred |-> p]

\* an object that is an instance of neither Z nor S
Other == [tag |-> "Other"]

isinstance(x, cls) == x.tag = cls

\* Z.__int__ / S.__int__
RECURSIVE value(_)
value(n) == IF isinstance(n, "Z") THEN 0 ELSE 1 + value(n.pred)

\* a finite chain of S applications ending in exactly one Z
RECURSIVE WellFormed(_)
WellFormed(n) ==
    \/ isinstance(n, "Z")
    \/ isinstance(n, "S") /\ WellFormed(n.pred)

\* S-chains of length <= n ending in the given leaf
RECURSIVE Chains(_, _)
Chains(leaf, n) ==
    IF n = 0 THEN {leaf}
    ELSE {leaf} \cup {S(p) : p \in Chains(leaf, n - 1)}

NatInputs == Chains(Z, MaxN)

Inputs == Chains(Z, MaxN) \cup Chains(Other, MaxN)

\* ------------------------------------------------------- operators -----
delta_ignores_force(x, force_right) ==
    IF isinstance(x, "Z") THEN Left(x) ELSE Right(x)

delta(x, force_right) ==
    IF force_right THEN Right(x)
    ELSE IF isinstance(x, "Z") THEN Left(x)
    ELSE Right(x)

succ(n) == S(n)

RECURSIVE from_int(_)
from_int_base_one(n) ==
    IF n <= 1 THEN Z
    ELSE S(from_int(n - 1))

from_int(n) ==
    IF n <= 0 THEN Z
    ELSE S(from_int(n - 1))

RECURSIVE add(_, _)
add_base_zero(a, b) ==
    LET choice == delta(b, FALSE) IN
    IF isinstance(choice, "Left") THEN Z
    ELSE LET b_pred == IF isinstance(b, "S") THEN b.pred ELSE Z
         IN  succ(add(a, b_pred))

add_last_succ_dropped(a, b) ==
    LET choice == delta(b, FALSE) IN
    IF isinstance(choice, "Left") THEN a
    ELSE LET b_pred == IF isinstance(b, "S") THEN b.pred ELSE Z
         IN  IF isinstance(b_pred, "Z") THEN add(a, b_pred)
             ELSE succ(add(a, b_pred))

add(a, b) ==
    LET choice == delta(b, FALSE) IN
    IF isinstance(choice, "Left") THEN a
    ELSE LET b_pred == IF isinstance(b, "S") THEN b.pred ELSE Z
         IN  succ(add(a, b_pred))

RECURSIVE multiply(_, _)
multiply_base_a(a, b) ==
    LET choice == delta(b, FALSE) IN
    IF isinstance(choice, "Left") THEN a
    ELSE LET b_pred == IF isinstance(b, "S") THEN b.pred ELSE Z
         IN  add(a, multiply(a, b_pred))

multiply(a, b) ==
    LET choice == delta(b, FALSE) IN
    IF isinstance(choice, "Left") THEN Z
    ELSE LET b_pred == IF isinstance(b, "S") THEN b.pred ELSE Z
         IN  add(a, multiply(a, b_pred))

RECURSIVE is_even(_)
is_even_one_even(n) ==
    IF isinstance(n, "Z") THEN TRUE
    ELSE IF isinstance(n, "S") THEN
        IF isinstance(n.pred, "Z") THEN TRUE
        ELSE is_even(IF isinstance(n.pred, "S") THEN n.pred.pred ELSE Z)
    ELSE FALSE

is_even_pred_falls_through(n) ==
    IF isinstance(n, "Z") THEN TRUE
    ELSE IF isinstance(n, "S") THEN
        IF isinstance(n.pred, "Z") THEN FALSE
        ELSE is_even(IF isinstance(n.pred, "S") THEN n.pred.pred ELSE Other)
    ELSE FALSE

is_even(n) ==
    IF isinstance(n, "Z") THEN TRUE
    ELSE IF isinstance(n, "S") THEN
        IF isinstance(n.pred, "Z") THEN FALSE
        ELSE is_even(IF isinstance(n.pred, "S") THEN n.pred.pred ELSE Z)
    ELSE FALSE

\* ------------------------------------------------------------ state ----
\* a, b, c: the arguments; k: the integer for from_int; force_right: delta's
\* flag; op: the function called; status: "none" before the call, "running"
\* while frames are on the stack, "returned" once the call has returned;
\* out: the value returned by the call that returned last (before any return,
\* a placeholder of the result's type).
\* stack: the interpreter's call stack, innermost frame last;
\* rec[f]: calls of f made from inside f; deltas, succs: calls of delta and
\* succ; reached: the depth at which the last add hit its base case.
VARIABLES a, b, c, k, force_right, op, status, out,
          stack, rec, deltas, succs, reached

vars == <<a, b, c, k, force_right, op, status, out,
          stack, rec, deltas, succs, reached>>

args == <<a, b, c, k, force_right>>

counters == <<rec, deltas, succs, reached>>

NoCalls == [f \in {"add", "multiply", "is_even"} |-> 0]

\* ------------------------------------- whole calls, one step each ------
Init ==
    /\ a \in Inputs
    /\ b \in Inputs
    /\ c \in NatInputs
    /\ k \in (0 - MaxK)..MaxK
    /\ force_right \in BOOLEAN
    /\ op = "none"
    /\ status = "none"
    /\ out = Z
    /\ stack = <<>>
    /\ rec = NoCalls
    /\ deltas = 0
    /\ succs = 0
    /\ reached = 0

Returns(f, v) ==
    /\ op = "none"
    /\ op' = f
    /\ status' = "returned"
    /\ out' = v
    /\ UNCHANGED <<args, stack, counters>>

CallDelta == Returns("delta", delta(a, force_right))

CallFromInt == Returns("from_int", from_int(k))

CallAdd == Returns("add", add(a, b))

CallMultiply == Returns("multiply", multiply(a, b))

CallIsEven == Returns("is_even", is_even(a))

Next ==
    \/ CallDelta
    \/ CallFromInt
    \/ CallAdd
    \/ CallMultiply
    \/ CallIsEven

Spec == Init /\ [][Next]_vars

\* ------------------------------- the same calls, one frame at a time ---
\* A frame is one activation of add, multiply or is_even: its arguments
\* (is_even's n is held in a), its depth below the call that started the
\* recursion (trace_add's depth), and where it resumes: "entry" before its
\* body has run, "ret_rec" after its recursive call, "ret_add" after
\* multiply's call of add.
Frame(f, x, y, d) == [fn |-> f, a |-> x, b |-> y, depth |-> d, pc |-> "entry"]

Top == stack[Len(stack)]

Below == SubSeq(stack, 1, Len(stack) - 1)

InFrame(f, at) ==
    /\ status = "running"
    /\ stack # <<>>
    /\ Top.fn = f
    /\ Top.pc = at

\* the top frame returns v to its caller
Return(v) ==
    /\ stack' = Below
    /\ out' = v
    /\ status' = IF Below = <<>> THEN "returned" ELSE "running"

\* the top frame calls g and will resume at `at`
Call(g, at) ==
    /\ stack' = Append(Append(Below, [Top EXCEPT !.pc = at]), g)
    /\ UNCHANGED <<out, status>>

InitRun ==
    /\ a \in Inputs
    /\ b \in Inputs
    /\ c = Z
    /\ k = 0
    /\ force_right = FALSE
    /\ op \in {"add", "multiply", "is_even"}
    /\ status = "running"
    /\ out = IF op = "is_even" THEN FALSE ELSE Z
    /\ stack = <<Frame(op, a, IF op = "is_even" THEN Z ELSE b, 0)>>
    /\ rec = NoCalls
    /\ deltas = 0
    /\ succs = 0
    /\ reached = 0

\* add, up to its recursive call or its base-case return
AddEnter_swapped ==
    /\ InFrame("add", "entry")
    /\ LET choice == delta(Top.b, FALSE) IN
       /\ deltas' = deltas + 1
       /\ IF isinstance(choice, "Left")
          THEN /\ Return(Top.a)
               /\ reached' = Top.depth
               /\ UNCHANGED rec
          ELSE LET b_pred == IF isinstance(Top.b, "S") THEN Top.b.pred ELSE Z
               IN  /\ Call(Frame("add", b_pred, Top.a, Top.depth + 1), "ret_rec")
                   /\ rec' = [rec EXCEPT !["add"] = @ + 1]
                   /\ UNCHANGED reached
    /\ UNCHANGED <<args, op, succs>>

AddEnter ==
    /\ InFrame("add", "entry")
    /\ LET choice == delta(Top.b, FALSE) IN
       /\ deltas' = deltas + 1
       /\ IF isinstance(choice, "Left")
          THEN /\ Return(Top.a)
               /\ reached' = Top.depth
               /\ UNCHANGED rec
          ELSE LET b_pred == IF isinstance(Top.b, "S") THEN Top.b.pred ELSE Z
               IN  /\ Call(Frame("add", Top.a, b_pred, Top.depth + 1), "ret_rec")
                   /\ rec' = [rec EXCEPT !["add"] = @ + 1]
                   /\ UNCHANGED reached
    /\ UNCHANGED <<args, op, succs>>

\* add, from the return of its recursive call: succ of the result
AddReturn ==
    /\ InFrame("add", "ret_rec")
    /\ Return(succ(out))
    /\ succs' = succs + 1
    /\ UNCHANGED <<args, op, rec, deltas, reached>>

\* multiply, up to its recursive call or its base-case return
MultiplyEnter ==
    /\ InFrame("multiply", "entry")
    /\ LET choice == delta(Top.b, FALSE) IN
       /\ deltas' = deltas + 1
       /\ IF isinstance(choice, "Left")
          THEN /\ Return(Z)
               /\ UNCHANGED rec
          ELSE LET b_pred == IF isinstance(Top.b, "S") THEN Top.b.pred ELSE Z
               IN  /\ Call(Frame("multiply", Top.a, b_pred, Top.depth + 1),
                           "ret_rec")
                   /\ rec' = [rec EXCEPT !["multiply"] = @ + 1]
    /\ UNCHANGED <<args, op, succs, reached>>

\* multiply, from the return of its recursive call: add(a, that result)
MultiplyCallAdd_swapped ==
    /\ InFrame("multiply", "ret_rec")
    /\ Call(Frame("add", out, Top.a, 0), "ret_add")
    /\ UNCHANGED <<args, op, counters>>

MultiplyCallAdd ==
    /\ InFrame("multiply", "ret_rec")
    /\ Call(Frame("add", Top.a, out, 0), "ret_add")
    /\ UNCHANGED <<args, op, counters>>

\* multiply, from the return of add: return what add returned
MultiplyReturn ==
    /\ InFrame("multiply", "ret_add")
    /\ Return(out)
    /\ UNCHANGED <<args, op, counters>>

\* is_even, up to its recursive call or a return
IsEvenEnter ==
    /\ InFrame("is_even", "entry")
    /\ LET n == Top.a IN
       IF isinstance(n, "Z") THEN
           Return(TRUE) /\ UNCHANGED rec
       ELSE IF isinstance(n, "S") THEN
           IF isinstance(n.pred, "Z") THEN
               Return(FALSE) /\ UNCHANGED rec
           ELSE
               /\ Call(Frame("is_even",
                             IF isinstance(n.pred, "S") THEN n.pred.pred
                             ELSE Z,
                             Z, Top.depth + 1), "ret_rec")
               /\ rec' = [rec EXCEPT !["is_even"] = @ + 1]
       ELSE
           Return(FALSE) /\ UNCHANGED rec
    /\ UNCHANGED <<args, op, deltas, succs, reached>>

\* is_even, from the return of its recursive call: return that result
IsEvenReturn ==
    /\ InFrame("is_even", "ret_rec")
    /\ Return(out)
    /\ UNCHANGED <<args, op, counters>>

NextRun ==
    \/ AddEnter
    \/ AddReturn
    \/ MultiplyEnter
    \/ MultiplyCallAdd
    \/ MultiplyReturn
    \/ IsEvenEnter
    \/ IsEvenReturn

RunSpec == InitRun /\ [][NextRun]_vars

\* the interpreter never pauses: an enabled step is eventually taken
FairRunSpec == InitRun /\ [][NextRun]_vars /\ WF_vars(NextRun)

\* ------------------------------------------------ properties of Spec ---
Recognized(x) == isinstance(x, "Z") \/ isinstance(x, "S")

\* C1: for well-formed a and b, add(a, b) is the well-formed S-chain of
\* length value(a) + value(b), and add(a, Z) is a itself.
C1_AddIsSum ==
    (op = "add" /\ WellFormed(a) /\ WellFormed(b)) =>
        /\ WellFormed(out)
        /\ value(out) = value(a) + value(b)
        /\ (b = Z => out = a)

C1_Witness ==
    /\ op = "add"
    /\ a = from_int(2)
    /\ b = from_int(3)
    /\ out = S(S(S(S(S(Z)))))

\* C2: for well-formed a and b, value(multiply(a, b)) is value(a) * value(b),
\* and multiply(a, Z) is Z.
C2_MultiplyIsProduct ==
    (op = "multiply" /\ WellFormed(a) /\ WellFormed(b)) =>
        /\ WellFormed(out)
        /\ value(out) = value(a) * value(b)
        /\ (b = Z => out = Z)

C2_Witness ==
    /\ op = "multiply"
    /\ a = from_int(2)
    /\ b = from_int(3)
    /\ value(out) = 6

\* C3: on well-formed values add is commutative and associative, as
\* structural equality of the results.
C3_AddCommutesAssociates ==
    (op = "add" /\ WellFormed(a) /\ WellFormed(b)) =>
        /\ out = add(b, a)
        /\ add(out, c) = add(a, add(b, c))

C3_Witness ==
    /\ op = "add"
    /\ a = from_int(1)
    /\ b = from_int(2)
    /\ c = from_int(3)
    /\ out = from_int(3)

\* C4: delta wraps its argument unchanged; without force_right the tag is
\* Left exactly for Z and Right for every other shape; with force_right the
\* tag is Right for every argument, Z included.
C4_DeltaClassifies ==
    op = "delta" =>
        /\ out.value = a
        /\ out.tag \in {"Left", "Right"}
        /\ (~force_right => (out.tag = "Left" <=> a = Z))
        /\ (force_right => out.tag = "Right")

C4_Witness ==
    /\ op = "delta"
    /\ force_right
    /\ a = Z
    /\ out = Right(Z)

\* C5: for well-formed n, is_even(n) is true iff value(n) is even.
C5_IsEvenIsParity ==
    (op = "is_even" /\ WellFormed(a)) =>
        (out <=> value(a) % 2 = 0)

C5_Witness ==
    /\ op = "is_even"
    /\ a = from_int(4)
    /\ out = TRUE

\* C6: from_int(k) is a well-formed chain whose value is k for k >= 0, and
\* is Z for k < 0.
C6_FromIntRoundTrip ==
    op = "from_int" =>
        /\ WellFormed(out)
        /\ (k >= 0 => value(out) = k)
        /\ (k < 0 => out = Z)

C6_Witness ==
    /\ op = "from_int"
    /\ k = 0 - 2
    /\ out = Z

\* C7: add or multiply called with a second operand that is neither Z nor S
\* ends in a reported classification error, not in a returned value.
C7_MalformedOperandRaises ==
    (op \in {"add", "multiply"} /\ ~Recognized(b)) => status = "raised"

C9_EveryAddDepthIsValueA ==
    (op = "multiply" /\ WellFormed(a) /\ WellFormed(b)) =>
        /\ (status = "returned" => rec["multiply"] = value(b))
        /\ (InFrame("multiply", "ret_add") => reached = value(a))

\* C9 amended: for well-formed a and b, multiply(a, b) makes exactly value(b)
\* recursive calls of multiply; the add called by the activation whose second
\* operand is S(b_pred) recurses to depth value(a) * value(b_pred), the value
\* of the partial product it is handed; in total add calls itself
\* value(a) * value(b) * (value(b) - 1) / 2 times.
C9_AddDepthIsPartialProduct ==
    (op = "multiply" /\ WellFormed(a) /\ WellFormed(b)) =>
        /\ (status = "returned" =>
                /\ rec["multiply"] = value(b)
                /\ 2 * rec["add"] = value(a) * value(b) * (value(b) - 1))
        /\ (InFrame("multiply", "ret_add") =>
                reached = value(Top.a) * value(Top.b.pred))

C9_Witness ==
    /\ op = "multiply"
    /\ a = from_int(2)
    /\ b = from_int(3)
    /\ status = "returned"
    /\ rec["multiply"] = 3
    /\ rec["add"] = 6
    /\ reached = 4

\* C10: for well-formed a and b, add(a, b) returns after exactly value(b)
\* recursive calls, with one delta per activation and value(b) applications
\* of succ, whatever a is; is_even(n) returns after exactly value(n) div 2
\* recursive calls; both always return.
C10_AddAndIsEvenReturn ==
    /\ []((op = "add" /\ WellFormed(a) /\ WellFormed(b)
              /\ status = "returned") =>
            /\ rec["add"] = value(b)
            /\ deltas = value(b) + 1
            /\ succs = value(b)
            /\ reached = value(b))
    /\ []((op = "is_even" /\ WellFormed(a) /\ status = "returned") =>
            rec["is_even"] = value(a) \div 2)
    /\ ((/\ op \in {"add", "is_even"}
         /\ WellFormed(a)
         /\ (op = "add" => WellFormed(b))) ~> (status = "returned"))

C10_Witness ==
    /\ op = "add"
    /\ a = from_int(2)
    /\ b = from_int(3)
    /\ status = "returned"
    /\ rec["add"] = 3
    /\ out = from_int(5)

====
